---------------------------- MODULE Spec2Model ----------------------------
(***************************************************************************)
(* Focus management of the display (renpy/display/focus.py): the focused   *)
(* widget, the grab, the list of focus regions, the reconciliation pass    *)
(* before_interact, change_focus, pointer hit-testing and directional      *)
(* navigation with its line-distance geometry.                             *)
(*                                                                         *)
(* Conventions.                                                            *)
(*  - Python's None is the string "None"; a widget is a string.            *)
(*  - A Focus object is [widget, rect]: rect is <<x, y, w, h>>, or <<>>    *)
(*    when x is None (a placeless focus).                                  *)
(*  - full_focus_name of a widget is the tuple <<n, serial>>, or <<>>      *)
(*    while the attribute has not been assigned.                           *)
(*  - The anchor fractions 0.1 and 0.9 are kept exact: every anchor        *)
(*    coordinate is held in tenths (10*x + w*9 stands for x + w*0.9), so   *)
(*    every distance is the code's distance times 100 and all comparisons  *)
(*    between distances are the comparisons of exact arithmetic.           *)
(***************************************************************************)
EXTENDS Integers, Sequences, FiniteSets, TLC

\* ------------------------------------------------------------------ bounds

\* Longest enumeration find_focusable produces in one pass.
MaxEnum == 2

\* Longest focus list the rendering system hands to take_focuses.
MaxRegions == 3

\* Largest endpoint coordinate of the segments the line distances are tried on.
MaxCoord == 3

\* ------------------------------------------------------------ value spaces

None == "None"

Widgets == {"w1", "w2", "w3"}

Names == {"a", "b"}

NoName == << >>

Placeless == << >>

\* The widgets the widget tree holds in the reconciliation runs.
TreeWidgets == {"w1", "w2"}

\* The (f, n) tuples root.find_focusable hands to the callback, in order.
Enums == UNION {[1..n -> TreeWidgets \X Names] : n \in 0..MaxEnum}

VARIABLES
    focused,          \* scene_lists.focused: a widget or None
    grab,             \* the module global grab: a widget or None
    focus_list,       \* the module global focus_list: a sequence of Focus
    full_focus_name,  \* each widget's full_focus_name attribute
    default,          \* each widget's default attribute (never written here)
    penalty,          \* renpy.config.focus_crossrange_penalty
    notes,            \* the focus/unfocus calls made by the last operation
    last_note,        \* per widget, the most recent call it received
    last,             \* the last operation, its input, and what it started from
    pass,             \* the last before_interact pass and whether focus moved since
    calc              \* the last direct evaluation of a line distance

vars == <<focused, grab, focus_list, full_focus_name, default, penalty,
          notes, last_note, last, pass, calc>>


\* ------------------------------------------------------------ Focus objects

\* Focus.__init__: the widget and its rectangle (arg is never read here).
Focus(widget, rect) == [widget |-> widget, rect |-> rect]

\* The argument None of change_focus, held as a Focus with no widget.
NoFocus == Focus(None, Placeless)

XIsNone(f) == f.rect = Placeless

FX(f) == f.rect[1]

FY(f) == f.rect[2]

FW(f) == f.rect[3]

FH(f) == f.rect[4]

\* ------------------------------------------------------------ notifications

\* One call of widget.focus(default) or widget.unfocus().
Note(w, kind, dflt) == [widget |-> w, kind |-> kind, default |-> dflt]

RECURSIVE ApplyNotes(_, _)
\* The most recent call each widget received once the calls ns were made.
ApplyNotes(ln, ns) ==
    IF ns = << >> THEN ln
    ELSE ApplyNotes([ln EXCEPT ![Head(ns).widget] = Head(ns).kind], Tail(ns))

\* How many calls of the given kind widget w received among ns.
CountNotes(ns, w, kind) ==
    Cardinality({i \in 1..Len(ns) : ns[i].widget = w /\ ns[i].kind = kind})

\* ---------------------------------------------------------- before_interact

RECURSIVE NameLoop(_, _, _, _)
\* The loop that assigns a full name to each focusable: serial is the number
\* of earlier entries with the same name n, and a widget enumerated again has
\* its attribute overwritten.
NameLoop(fwn, i, namecount, names) ==
    IF i > Len(fwn) THEN names
    ELSE LET f == fwn[i][1]
             n == fwn[i][2]
             serial == namecount[n]
         IN  NameLoop(fwn, i + 1,
                      [namecount EXCEPT ![n] = serial + 1],
                      [names EXCEPT ![f] = <<n, serial>>])

AssignNames(fwn, names) == NameLoop(fwn, 1, [n \in Names |-> 0], names)

RECURSIVE MatchLoop(_, _, _, _)
MatchLoop(fwn, i, names, current) ==
    IF i > Len(fwn) THEN None
    ELSE IF names[fwn[i][1]] = names[current] THEN fwn[i][1]
    ELSE MatchLoop(fwn, i + 1, names, current)

\* MatchName with the loop's break left out: the else branch always runs and
\* current ends as None.
MatchName_NoBreak(fwn, names, current) == None

\* MatchName comparing with current_name, the full name current held when the
\* pass began (line 79), in place of the name it has after the naming loop.
MatchName_OldName(fwn, names, current) ==
    IF \E i \in 1..Len(fwn) : names[fwn[i][1]] = full_focus_name[current]
    THEN fwn[CHOOSE i \in 1..Len(fwn) :
                /\ names[fwn[i][1]] = full_focus_name[current]
                /\ \A j \in 1..(i - 1) :
                      names[fwn[j][1]] # full_focus_name[current]][1]
    ELSE None

\* The first enumerated widget whose full name equals the full name current
\* has now (after the naming loop), or None (the loop's else branch).
MatchName(fwn, names, current) == MatchLoop(fwn, 1, names, current)

RECURSIVE DefaultLoop(_, _, _)
DefaultLoop(fwn, i, dflt) ==
    IF i > Len(fwn) THEN None
    ELSE IF dflt[fwn[i][1]] THEN fwn[i][1]
    ELSE DefaultLoop(fwn, i + 1, dflt)

\* FindDefault that settles on the first entry when none is flagged default.
FindDefault_First(fwn, dflt) ==
    IF DefaultLoop(fwn, 1, dflt) # None THEN DefaultLoop(fwn, 1, dflt)
    ELSE IF fwn # << >> THEN fwn[1][1] ELSE None

\* The first enumerated widget flagged default, or None.
FindDefault(fwn, dflt) == DefaultLoop(fwn, 1, dflt)

\* Resolve with the default search tied to "nothing was focused": a focus
\* whose name is gone is cleared without looking for the default widget.
Resolve_NoFallback(fwn, names, cur, dflt) ==
    IF cur # None THEN MatchName(fwn, names, cur) ELSE FindDefault(fwn, dflt)

\* The widget before_interact settles on: the name match when a widget was
\* focused, otherwise (or when nothing matched) the default widget, or None.
\* Every branch ends in set_focused of this value.
Resolve(fwn, names, cur, dflt) ==
    LET matched == IF cur # None THEN MatchName(fwn, names, cur) ELSE None
    IN  IF matched # None THEN matched ELSE FindDefault(fwn, dflt)

RECURSIVE UnfocusLoop(_, _, _)
UnfocusLoop(fwn, i, current) ==
    IF i > Len(fwn) THEN << >>
    ELSE (IF fwn[i][1] # current
          THEN <<Note(fwn[i][1], "unfocus", FALSE)>> ELSE << >>)
         \o UnfocusLoop(fwn, i + 1, current)

\* PassNotes with current.focus() called without default=True.
PassNotes_NoDefault(fwn, current) ==
    UnfocusLoop(fwn, 1, current)
    \o (IF current # None THEN <<Note(current, "focus", FALSE)>> ELSE << >>)

\* The closing calls of the pass: unfocus on every entry that is not current,
\* then focus(default=True) on current.
PassNotes(fwn, current) ==
    UnfocusLoop(fwn, 1, current)
    \o (IF current # None THEN <<Note(current, "focus", TRUE)>> ELSE << >>)

\* The logical names, and the default flags, of an enumeration, in order.
NamesOf(fwn) == [i \in 1..Len(fwn) |-> fwn[i][2]]

FlagsOf(fwn) == [i \in 1..Len(fwn) |-> default[fwn[i][1]]]

\* The record of an operation: what ran, on what input, and the focus, the
\* grab and the focused widget's full name it started from; enum is the set
\* of widgets the most recent pass enumerated.
Started(op, fwn, newfocus, ev, mul) ==
    [op |-> op, fwn |-> fwn, newfocus |-> newfocus, ev |-> ev, mul |-> mul,
     raised |-> FALSE, focused |-> focused, grab |-> grab,
     name |-> IF focused = None THEN NoName ELSE full_focus_name[focused],
     enum |-> IF op = "before_interact"
              THEN {fwn[i][1] : i \in 1..Len(fwn)} ELSE last.enum]

NoEvent == [type |-> "none", pos |-> <<0, 0>>, keys |-> {}]

NoPass == [repeat |-> FALSE, prev |-> << >>]

BeforeInteract(fwn) ==
    LET names == AssignNames(fwn, full_focus_name)
        current == Resolve(fwn, names, focused, default)
        ns == PassNotes(fwn, current)
        repeat == /\ last.op = "before_interact"
                  /\ NamesOf(last.fwn) = NamesOf(fwn)
                  /\ FlagsOf(last.fwn) = FlagsOf(fwn)
    IN  /\ grab' = None
        /\ full_focus_name' = names
        /\ focused' = current
        /\ notes' = ns
        /\ last_note' = ApplyNotes(last_note, ns)
        /\ last' = Started("before_interact", fwn, NoFocus, NoEvent, << >>)
        /\ pass' = [repeat |-> repeat,
                    prev |-> IF repeat THEN last.fwn ELSE << >>]
        /\ UNCHANGED <<focus_list, default, penalty, calc>>

\* A pass in which the k-th of the closing calls raises. set_focused has
\* already run, in the match loop or the default loop (lines 84, 95, 98), and
\* so have the clearing of grab and the naming loop; the calls after the k-th
\* are not made.
BeforeInteractAborted(fwn, k) ==
    LET names == AssignNames(fwn, full_focus_name)
        current == Resolve(fwn, names, focused, default)
        ns == PassNotes(fwn, current)
    IN  /\ k \in 1..Len(ns)
        /\ grab' = None
        /\ full_focus_name' = names
        /\ focused' = current
        /\ notes' = SubSeq(ns, 1, k)
        /\ last_note' = ApplyNotes(last_note, SubSeq(ns, 1, k))
        /\ last' = [Started("before_interact", fwn, NoFocus, NoEvent, << >>)
                       EXCEPT !.raised = TRUE]
        /\ pass' = NoPass
        /\ UNCHANGED <<focus_list, default, penalty, calc>>

\* ------------------------------------------------------------- change_focus

\* change_focus without the test of grab.
change_focus_NoGrab(st, newfocus) ==
    IF st.focused = newfocus.widget THEN st
    ELSE [st EXCEPT
          !.focused = newfocus.widget,
          !.notes = st.notes
             \o (IF st.focused # None
                 THEN <<Note(st.focused, "unfocus", FALSE)>> ELSE << >>)
             \o (IF newfocus.widget # None
                 THEN <<Note(newfocus.widget, "focus", FALSE)>> ELSE << >>)]

\* change_focus without the "nothing to do" return: the focused widget is
\* sent unfocus and focus again when it is the target.
change_focus_Always(st, newfocus) ==
    IF grab # None THEN st
    ELSE [st EXCEPT
          !.focused = newfocus.widget,
          !.notes = st.notes
             \o (IF st.focused # None
                 THEN <<Note(st.focused, "unfocus", FALSE)>> ELSE << >>)
             \o (IF newfocus.widget # None
                 THEN <<Note(newfocus.widget, "focus", FALSE)>> ELSE << >>)]

\* change_focus without the call of current.unfocus().
change_focus_NoUnfocus(st, newfocus) ==
    IF grab # None \/ st.focused = newfocus.widget THEN st
    ELSE [st EXCEPT
          !.focused = newfocus.widget,
          !.notes = st.notes
             \o (IF newfocus.widget # None
                 THEN <<Note(newfocus.widget, "focus", FALSE)>> ELSE << >>)]

\* change_focus on the running state st = [focused, notes, raised] of an
\* operation: the focus so far, the calls made so far, and whether an
\* assertion has failed.
change_focus(st, newfocus) ==
    IF grab # None THEN st
    ELSE LET widget == newfocus.widget
             current == st.focused
         IN  IF current = widget THEN st
             ELSE [st EXCEPT
                   !.focused = widget,
                   !.notes = st.notes
                      \o (IF current # None
                          THEN <<Note(current, "unfocus", FALSE)>> ELSE << >>)
                      \o (IF widget # None
                          THEN <<Note(widget, "focus", FALSE)>> ELSE << >>)]

\* The state an operation starts from.
Start == [focused |-> focused, notes |-> << >>, raised |-> FALSE]

\* The state an operation leaves.
Commit(st) ==
    /\ focused' = st.focused
    /\ notes' = st.notes
    /\ last_note' = ApplyNotes(last_note, st.notes)

\* The widget has been enumerated by some pass: its full_focus_name exists.
Known(w) == full_focus_name[w] # NoName

\* A caller hands change_focus a Focus object, or None (NoFocus).
ChangeFocus(newfocus) ==
    /\ newfocus # NoFocus => Known(newfocus.widget)
    /\ Commit(change_focus(Start, newfocus))
    /\ last' = Started("change_focus", << >>, newfocus, NoEvent, << >>)
    /\ pass' = NoPass
    /\ UNCHANGED <<grab, focus_list, full_focus_name, default, penalty, calc>>

\* A call of change_focus in which the k-th call on a widget raises:
\* set_focused, the last statement (line 137), is not reached.
ChangeFocusAborted(newfocus, k) ==
    LET st == change_focus(Start, newfocus)
    IN  /\ newfocus # NoFocus => Known(newfocus.widget)
        /\ k \in 1..Len(st.notes)
        /\ notes' = SubSeq(st.notes, 1, k)
        /\ last_note' = ApplyNotes(last_note, SubSeq(st.notes, 1, k))
        /\ last' = [Started("change_focus", << >>, newfocus, NoEvent, << >>)
                       EXCEPT !.raised = TRUE]
        /\ pass' = NoPass
        /\ UNCHANGED <<focused, grab, focus_list, full_focus_name, default,
                       penalty, calc>>

SetGrab(widget) ==
    /\ grab' = widget
    /\ notes' = << >>
    /\ last' = Started("set_grab", << >>, NoFocus, NoEvent, << >>)
    /\ pass' = NoPass
    /\ UNCHANGED <<focused, focus_list, full_focus_name, default, penalty,
                   last_note, calc>>


TakeFocuses(fl) ==
    /\ \A i \in 1..Len(fl) : Known(fl[i].widget)
    /\ focus_list' = fl
    /\ notes' = << >>
    /\ last' = Started("take_focuses", << >>, NoFocus, NoEvent, << >>)
    /\ pass' = NoPass
    /\ UNCHANGED <<focused, grab, full_focus_name, default, penalty,
                   last_note, calc>>

\* ------------------------------------------------------------ mouse_handler

\* The rectangle test with the bounds left out.
Hit_Strict(f, x, y) ==
    /\ FX(f) < x /\ x < FX(f) + FW(f)
    /\ FY(f) < y /\ y < FY(f) + FH(f)

\* The rectangle test of mouse_handler, bounds included.
Hit(f, x, y) ==
    /\ FX(f) <= x /\ x <= FX(f) + FW(f)
    /\ FY(f) <= y /\ y <= FY(f) + FH(f)

RECURSIVE MouseLoop(_, _, _, _)
\* The loop over focus_list: a focus with x None becomes the default and is
\* skipped; the first rectangle holding the point ends the loop; a loop that
\* runs out leaves the default (NoFocus when there was none).
MouseLoop(i, x, y, dflt) ==
    IF i > Len(focus_list) THEN dflt
    ELSE IF XIsNone(focus_list[i]) THEN MouseLoop(i + 1, x, y, focus_list[i])
    ELSE IF Hit(focus_list[i], x, y) THEN focus_list[i]
    ELSE MouseLoop(i + 1, x, y, dflt)

mouse_handler(st, ev) ==
    change_focus(st, MouseLoop(1, ev.pos[1], ev.pos[2], NoFocus))

\* ------------------------------------------------------------ focus_extreme

Score(f, mul) ==
    FX(f) * mul[1] + FY(f) * mul[2] + FW(f) * mul[3] + FH(f) * mul[4]

\* "if not f.x": true of x None and of x = 0 alike.
NotX(f) == XIsNone(f) \/ FX(f) = 0

RECURSIVE ExtremeLoop(_, _, _, _)
\* max_focus is an index of focus_list, 0 for None. max_score starts at
\* -(65536**2), which every score of a rectangle of the model exceeds, so the
\* first scored focus always replaces it.
ExtremeLoop(i, mul, max_focus, max_score) ==
    IF i > Len(focus_list) THEN max_focus
    ELSE IF NotX(focus_list[i]) THEN ExtremeLoop(i + 1, mul, max_focus, max_score)
    ELSE LET score == Score(focus_list[i], mul)
         IN  IF max_focus = 0 \/ score > max_score
             THEN ExtremeLoop(i + 1, mul, i, score)
             ELSE ExtremeLoop(i + 1, mul, max_focus, max_score)

\* focus_extreme without "if max_focus": change_focus is handed None when no
\* focus was scored.
focus_extreme_NoGuard(st, mul) ==
    change_focus(st, IF ExtremeLoop(1, mul, 0, 0) # 0
                     THEN focus_list[ExtremeLoop(1, mul, 0, 0)] ELSE NoFocus)

focus_extreme(st, mul) ==
    LET max_focus == ExtremeLoop(1, mul, 0, 0)
    IN  IF max_focus # 0 THEN change_focus(st, focus_list[max_focus]) ELSE st

\* ------------------------------------------------------------ line distances

Sq(v) == v * v

points_dist(x0, y0, x1, y1, xfudge, yfudge) ==
    Sq((x0 - x1) * xfudge) + Sq((y0 - y1) * yfudge)

\* The outcome of "assert False": no distance is negative.
AssertFalse == -1

\* horiz_line_dist whose last case measures from the same end points as the
\* case before it.
horiz_line_dist_SameEnds(ax0, ay0, ax1, ay1, bx0, by0, bx1, by1) ==
    IF \/ (bx0 <= ax0 /\ ax0 <= ax1 /\ ax1 <= bx1)
       \/ (ax0 <= bx0 /\ bx0 <= bx1 /\ bx1 <= ax1)
       \/ (ax0 <= bx0 /\ bx0 <= ax1 /\ ax1 <= bx1)
       \/ (bx0 <= ax0 /\ ax0 <= bx1 /\ bx1 <= ax1)
    THEN Sq(ay0 - by0)
    ELSE IF ax0 <= ax1 /\ ax1 <= bx0 /\ bx0 <= bx1
    THEN points_dist(ax1, ay1, bx0, by0, penalty, 1)
    ELSE IF bx0 <= bx1 /\ bx1 <= ax0 /\ ax0 <= ax1
    THEN points_dist(ax1, ay1, bx0, by0, penalty, 1)
    ELSE AssertFalse

\* horiz_line_dist with the last of the four overlap tests missing.
horiz_line_dist_ThreeTests(ax0, ay0, ax1, ay1, bx0, by0, bx1, by1) ==
    IF \/ (bx0 <= ax0 /\ ax0 <= ax1 /\ ax1 <= bx1)
       \/ (ax0 <= bx0 /\ bx0 <= bx1 /\ bx1 <= ax1)
       \/ (ax0 <= bx0 /\ bx0 <= ax1 /\ ax1 <= bx1)
    THEN Sq(ay0 - by0)
    ELSE IF ax0 <= ax1 /\ ax1 <= bx0 /\ bx0 <= bx1
    THEN points_dist(ax1, ay1, bx0, by0, penalty, 1)
    ELSE IF bx0 <= bx1 /\ bx1 <= ax0 /\ ax0 <= ax1
    THEN points_dist(ax0, ay0, bx1, by1, penalty, 1)
    ELSE AssertFalse

horiz_line_dist(ax0, ay0, ax1, ay1, bx0, by0, bx1, by1) ==
    IF \/ (bx0 <= ax0 /\ ax0 <= ax1 /\ ax1 <= bx1)
       \/ (ax0 <= bx0 /\ bx0 <= bx1 /\ bx1 <= ax1)
       \/ (ax0 <= bx0 /\ bx0 <= ax1 /\ ax1 <= bx1)
       \/ (bx0 <= ax0 /\ ax0 <= bx1 /\ bx1 <= ax1)
    THEN Sq(ay0 - by0)
    ELSE IF ax0 <= ax1 /\ ax1 <= bx0 /\ bx0 <= bx1
    THEN points_dist(ax1, ay1, bx0, by0, penalty, 1)
    ELSE IF bx0 <= bx1 /\ bx1 <= ax0 /\ ax0 <= ax1
    THEN points_dist(ax0, ay0, bx1, by1, penalty, 1)
    ELSE AssertFalse

\* verti_line_dist with the fudge factors in the order horiz_line_dist has
\* them: the penalty falls on the x difference.
verti_line_dist_PenaltyOnX(ax0, ay0, ax1, ay1, bx0, by0, bx1, by1) ==
    IF \/ (by0 <= ay0 /\ ay0 <= ay1 /\ ay1 <= by1)
       \/ (ay0 <= by0 /\ by0 <= by1 /\ by1 <= ay1)
       \/ (ay0 <= by0 /\ by0 <= ay1 /\ ay1 <= by1)
       \/ (by0 <= ay0 /\ ay0 <= by1 /\ by1 <= ay1)
    THEN Sq(ax0 - bx0)
    ELSE IF ay0 <= ay1 /\ ay1 <= by0 /\ by0 <= by1
    THEN points_dist(ax1, ay1, bx0, by0, penalty, 1)
    ELSE IF by0 <= by1 /\ by1 <= ay0 /\ ay0 <= ay1
    THEN points_dist(ax0, ay0, bx1, by1, penalty, 1)
    ELSE AssertFalse

verti_line_dist(ax0, ay0, ax1, ay1, bx0, by0, bx1, by1) ==
    IF \/ (by0 <= ay0 /\ ay0 <= ay1 /\ ay1 <= by1)
       \/ (ay0 <= by0 /\ by0 <= by1 /\ by1 <= ay1)
       \/ (ay0 <= by0 /\ by0 <= ay1 /\ ay1 <= by1)
       \/ (by0 <= ay0 /\ ay0 <= by1 /\ by1 <= ay1)
    THEN Sq(ax0 - bx0)
    ELSE IF ay0 <= ay1 /\ ay1 <= by0 /\ by0 <= by1
    THEN points_dist(ax1, ay1, bx0, by0, 1, penalty)
    ELSE IF by0 <= by1 /\ by1 <= ay0 /\ ay0 <= ay1
    THEN points_dist(ax0, ay0, bx1, by1, 1, penalty)
    ELSE AssertFalse

\* ------------------------------------------------------------ focus_nearest

Directions == {"focus_right", "focus_left", "focus_up", "focus_down"}

\* The arguments key_handler gives focus_nearest for each mapped action; the
\* anchor fractions are in tenths.
Binding(dir) ==
    CASE dir = "focus_right" ->
            [from |-> <<9, 1, 9, 9>>, to |-> <<1, 1, 1, 9>>,
             line_dist |-> "verti_line_dist", mul |-> <<-1, 0, 0, 0>>]
      [] dir = "focus_left" ->
            [from |-> <<1, 1, 1, 9>>, to |-> <<9, 1, 9, 9>>,
             line_dist |-> "verti_line_dist", mul |-> <<1, 0, 1, 0>>]
      [] dir = "focus_up" ->
            [from |-> <<1, 1, 9, 1>>, to |-> <<1, 9, 9, 9>>,
             line_dist |-> "horiz_line_dist", mul |-> <<0, 1, 0, 1>>]
      [] dir = "focus_down" ->
            [from |-> <<1, 9, 9, 9>>, to |-> <<1, 1, 9, 1>>,
             line_dist |-> "horiz_line_dist", mul |-> <<0, -1, 0, 0>>]

\* The conditions with the width and height of the rectangles forgotten.
Condition_NoExtent(dir, old, new) ==
    CASE dir = "focus_right" -> FX(old) <= FX(new)
      [] dir = "focus_left" -> FX(new) <= FX(old)
      [] dir = "focus_up" -> FY(new) <= FY(old)
      [] dir = "focus_down" -> FY(old) <= FY(new)

\* The lambda key_handler passes as condition.
Condition(dir, old, new) ==
    CASE dir = "focus_right" -> FX(old) + FW(old) <= FX(new)
      [] dir = "focus_left" -> FX(new) + FW(new) <= FX(old)
      [] dir = "focus_up" -> FY(new) + FH(new) <= FY(old)
      [] dir = "focus_down" -> FY(old) + FH(old) <= FY(new)

\* The segment <<x0, y0, x1, y1>> of focus f at the fractions off, in tenths.
Anchor(f, off) ==
    <<10 * FX(f) + FW(f) * off[1], 10 * FY(f) + FH(f) * off[2],
      10 * FX(f) + FW(f) * off[3], 10 * FY(f) + FH(f) * off[4]>>

\* The call line_dist(fx0, fy0, fx1, fy1, tx0, ty0, tx1, ty1).
LineDist(which, a, b) ==
    IF which = "horiz_line_dist"
    THEN horiz_line_dist(a[1], a[2], a[3], a[4], b[1], b[2], b[3], b[4])
    ELSE verti_line_dist(a[1], a[2], a[3], a[4], b[1], b[2], b[3], b[4])

RECURSIVE FindCurrent(_, _)
\* The index of the first focus whose widget is current, 0 when the loop
\* runs out.
FindCurrent(i, current) ==
    IF i > Len(focus_list) THEN 0
    ELSE IF focus_list[i].widget = current THEN i
    ELSE FindCurrent(i + 1, current)

RECURSIVE NearestLoop_LastWins(_, _, _, _)
\* The scoring loop with "dist <= new_focus_dist": the last of several equally
\* near focuses wins.
NearestLoop_LastWins(i, from, dir, acc) ==
    IF i > Len(focus_list) \/ acc.raised THEN acc
    ELSE LET f == focus_list[i]
             dist == LineDist(Binding(dir).line_dist,
                              Anchor(focus_list[from], Binding(dir).from),
                              Anchor(f, Binding(dir).to))
         IN  IF i = from THEN NearestLoop_LastWins(i + 1, from, dir, acc)
             ELSE IF XIsNone(f)
             THEN NearestLoop_LastWins(i + 1, from, dir,
                                       [acc EXCEPT !.placeless = i])
             ELSE IF ~Condition(dir, focus_list[from], f)
             THEN NearestLoop_LastWins(i + 1, from, dir, acc)
             ELSE IF dist = AssertFalse
             THEN [acc EXCEPT !.raised = TRUE]
             ELSE IF acc.new_focus = 0 \/ dist <= acc.new_focus_dist
             THEN NearestLoop_LastWins(i + 1, from, dir,
                     [acc EXCEPT !.new_focus = i, !.new_focus_dist = dist])
             ELSE NearestLoop_LastWins(i + 1, from, dir, acc)

RECURSIVE NearestLoop(_, _, _, _)
\* The scoring loop. acc holds placeless and new_focus as indexes of
\* focus_list (0 for None), new_focus_dist, and whether line_dist has hit its
\* assertion. new_focus_dist starts at (65536.0 * penalty) ** 2, which every
\* distance between rectangles of the model stays below, so the first
\* admissible focus always replaces it.
NearestLoop(i, from, dir, acc) ==
    IF i > Len(focus_list) \/ acc.raised THEN acc
    ELSE LET f == focus_list[i]
             dist == LineDist(Binding(dir).line_dist,
                              Anchor(focus_list[from], Binding(dir).from),
                              Anchor(f, Binding(dir).to))
         IN  IF i = from THEN NearestLoop(i + 1, from, dir, acc)
             ELSE IF XIsNone(f)
             THEN NearestLoop(i + 1, from, dir, [acc EXCEPT !.placeless = i])
             ELSE IF ~Condition(dir, focus_list[from], f)
             THEN NearestLoop(i + 1, from, dir, acc)
             ELSE IF dist = AssertFalse
             THEN [acc EXCEPT !.raised = TRUE]
             ELSE IF acc.new_focus = 0 \/ dist < acc.new_focus_dist
             THEN NearestLoop(i + 1, from, dir,
                     [acc EXCEPT !.new_focus = i, !.new_focus_dist = dist])
             ELSE NearestLoop(i + 1, from, dir, acc)

\* The accumulator the scoring loop starts from.
NearestStart ==
    [placeless |-> 0, new_focus |-> 0, new_focus_dist |-> 0, raised |-> FALSE]

\* focus_nearest that gives up on a stale focus: when the focused widget
\* matches no focus of the list it returns without a call.
focus_nearest_StaleStays(st, dir) ==
    IF focus_list = << >> THEN st
    ELSE IF st.focused = None THEN change_focus(st, focus_list[1])
    ELSE LET from == FindCurrent(1, st.focused)
         IN  IF from = 0 THEN st
             ELSE IF XIsNone(focus_list[from])
             THEN focus_extreme(st, Binding(dir).mul)
             ELSE LET acc == NearestLoop(1, from, dir, NearestStart)
                      new_focus == IF acc.new_focus # 0 THEN acc.new_focus
                                   ELSE acc.placeless
                  IN  IF acc.raised THEN [st EXCEPT !.raised = TRUE]
                      ELSE IF new_focus # 0
                      THEN change_focus(st, focus_list[new_focus])
                      ELSE st

\* focus_nearest with "new_focus = placeless or new_focus": the placeless
\* focus is taken ahead of the nearest one.
focus_nearest_PlacelessFirst(st, dir) ==
    IF focus_list = << >> THEN st
    ELSE IF st.focused = None THEN change_focus(st, focus_list[1])
    ELSE LET from == FindCurrent(1, st.focused)
         IN  IF from = 0 THEN change_focus(st, focus_list[1])
             ELSE IF XIsNone(focus_list[from])
             THEN focus_extreme(st, Binding(dir).mul)
             ELSE LET acc == NearestLoop(1, from, dir, NearestStart)
                      new_focus == IF acc.placeless # 0 THEN acc.placeless
                                   ELSE acc.new_focus
                  IN  IF acc.raised THEN [st EXCEPT !.raised = TRUE]
                      ELSE IF new_focus # 0
                      THEN change_focus(st, focus_list[new_focus])
                      ELSE st

focus_nearest(st, dir) ==
    IF focus_list = << >> THEN st
    ELSE IF st.focused = None THEN change_focus(st, focus_list[1])
    ELSE LET from == FindCurrent(1, st.focused)
         IN  IF from = 0 THEN change_focus(st, focus_list[1])
             ELSE IF XIsNone(focus_list[from])
             THEN focus_extreme(st, Binding(dir).mul)
             ELSE LET acc == NearestLoop(1, from, dir, NearestStart)
                      new_focus == IF acc.new_focus # 0 THEN acc.new_focus
                                   ELSE acc.placeless
                  IN  IF acc.raised THEN [st EXCEPT !.raised = TRUE]
                      ELSE IF new_focus # 0
                      THEN change_focus(st, focus_list[new_focus])
                      ELSE st

\* -------------------------------------------------- key_handler, event_handler

\* One "if map_event(ev, dir)" of key_handler; a failed assertion ends the
\* handler.
KeyStep(st, ev, dir) ==
    IF dir \in ev.keys /\ ~st.raised THEN focus_nearest(st, dir) ELSE st

key_handler(st, ev) ==
    KeyStep(KeyStep(KeyStep(KeyStep(st, ev, "focus_right"),
                            ev, "focus_left"),
                    ev, "focus_up"),
            ev, "focus_down")

MouseTypes == {"MOUSEMOTION", "MOUSEBUTTONUP", "MOUSEBUTTONDOWN"}

event_handler(st, ev) ==
    key_handler(IF ev.type \in MouseTypes THEN mouse_handler(st, ev) ELSE st, ev)

EventHandler(ev) ==
    LET st == event_handler(Start, ev)
    IN  /\ Commit(st)
        /\ last' = [Started("event_handler", << >>, NoFocus, ev, << >>)
                       EXCEPT !.raised = st.raised]
        /\ pass' = NoPass
        /\ UNCHANGED <<grab, focus_list, full_focus_name, default, penalty,
                       calc>>

\* A direct call of focus_extreme.
FocusExtreme(mul) ==
    /\ Commit(focus_extreme(Start, mul))
    /\ last' = Started("focus_extreme", << >>, NoFocus, NoEvent, mul)
    /\ pass' = NoPass
    /\ UNCHANGED <<grab, focus_list, full_focus_name, default, penalty, calc>>

\* ------------------------------------------------- direct line distances

NoCalc == [fn |-> "none", a |-> <<0, 0, 0, 0>>, b |-> <<0, 0, 0, 0>>, d |-> 0]

\* A direct call horiz_line_dist(*a, *b) on the two segments
\* <<x0, y0, x1, y1>> held ready in calc.
HorizLineDist ==
    /\ calc.fn = "none"
    /\ calc' = [calc EXCEPT !.fn = "horiz_line_dist",
                            !.d = LineDist("horiz_line_dist", calc.a, calc.b)]
    /\ UNCHANGED <<focused, grab, focus_list, full_focus_name, default,
                   penalty, notes, last_note, last, pass>>

\* A direct call verti_line_dist(*a, *b).
VertiLineDist ==
    /\ calc.fn = "none"
    /\ calc' = [calc EXCEPT !.fn = "verti_line_dist",
                            !.d = LineDist("verti_line_dist", calc.a, calc.b)]
    /\ UNCHANGED <<focused, grab, focus_list, full_focus_name, default,
                   penalty, notes, last_note, last, pass>>

\* ------------------------------------------------------------------ inputs

\* Values of renpy.config.focus_crossrange_penalty the model is run with.
Penalties == {1, 3}

\* The rectangles the rendering system reports.
Rects == {<<0, 0, 10, 10>>, <<20, 0, 10, 10>>, <<-20, 0, 10, 10>>,
          <<0, 20, 10, 10>>, <<20, 20, 10, 10>>}

\* The widget of the i-th focus of a list: w1, w2, w3, and then again.
WidgetAt(i) == <<"w1", "w2", "w3">>[((i - 1) % 3) + 1]

\* The focus lists the rendering system hands over: up to MaxRegions
\* focuses, each a rectangle or placeless.
FocusLists ==
    UNION {{[i \in 1..n |-> Focus(WidgetAt(i), rs[i])] :
               rs \in [1..n -> Rects \cup {Placeless}]} : n \in 0..MaxRegions}

\* The focus lists and events of the runs of the whole module.
FrameLists ==
    {<< >>,
     <<Focus("w1", <<0, 0, 10, 10>>)>>,
     <<Focus("w1", <<0, 0, 10, 10>>), Focus("w2", <<20, 0, 10, 10>>)>>,
     <<Focus("w1", Placeless), Focus("w2", <<0, 0, 10, 10>>)>>,
     <<Focus("w1", <<20, 0, 10, 10>>), Focus("w2", Placeless)>>}

FrameEvents ==
    {[type |-> "MOUSEMOTION", pos |-> <<5, 5>>, keys |-> {}],
     [type |-> "MOUSEBUTTONDOWN", pos |-> <<100, 100>>, keys |-> {}],
     [type |-> "KEYDOWN", pos |-> <<0, 0>>, keys |-> {"focus_right"}],
     [type |-> "KEYDOWN", pos |-> <<0, 0>>, keys |-> {"focus_left"}],
     [type |-> "KEYDOWN", pos |-> <<0, 0>>, keys |-> {"focus_up", "focus_down"}]}

\* The enumerations of up to MaxEnum widgets, any of Widgets, each at most
\* once.
OnceEnums ==
    {fwn \in UNION {[1..n -> Widgets \X Names] : n \in 0..MaxEnum} :
        \A i, j \in 1..Len(fwn) : fwn[i][1] = fwn[j][1] => i = j}

\* What a caller hands set_grab; only whether it is None is ever read.
GrabInputs == {None, "w1"}

\* What a caller may hand change_focus: None, or a Focus of some widget.
CallFocuses == {NoFocus} \cup {Focus(w, Placeless) : w \in Widgets}

Points == {<<5, 5>>, <<10, 10>>, <<25, 5>>, <<-15, 5>>, <<100, 100>>}

\* Pointer events: map_event matches none of the focus actions on them.
PointerEvents == {[type |-> t, pos |-> p, keys |-> {}] :
                     t \in MouseTypes, p \in Points}

\* Key events: keys is the set of focus actions map_event matches.
KeyEvents ==
    {[type |-> "KEYDOWN", pos |-> <<0, 0>>, keys |-> k] :
        k \in {{}, Directions, {"focus_right", "focus_down"},
               {"focus_left", "focus_up"}} \cup {{d} : d \in Directions}}

\* Multiplier tuples focus_extreme is called with: the four of key_handler
\* and some others.
Muls == {<<-1, 0, 0, 0>>, <<1, 0, 1, 0>>, <<0, 1, 0, 1>>, <<0, -1, 0, 0>>,
         <<0, 0, 0, 0>>, <<1, 1, 1, 1>>, <<-1, -1, 0, 0>>, <<1, -1, 0, 0>>}

\* Horizontal (vertical) segments with ordered endpoints on a small grid, and
\* the two segments (0,0)-(10,0) and (5,5)-(15,5).
HSegs == {<<x0, y, x1, y>> : x0 \in 0..MaxCoord, x1 \in 0..MaxCoord,
                              y \in 0..MaxCoord}

Segs == {s \in HSegs : s[1] <= s[3]} \cup {<<0, 0, 10, 0>>, <<5, 5, 15, 5>>}

\* The same segments turned upright: <<x, y0, x, y1>> with y0 <= y1.
VSegs == {<<s[2], s[1], s[4], s[3]>> : s \in Segs}

\* ---------------------------------------------------------- specifications

\* The module as imported: nothing focused, nothing grabbed, no focus list,
\* no widget named yet.
Init ==
    /\ focused = None
    /\ grab = None
    /\ focus_list = << >>
    /\ full_focus_name = [w \in Widgets |-> NoName]
    /\ default \in [Widgets -> BOOLEAN]
    /\ penalty \in Penalties
    /\ notes = << >>
    /\ last_note = [w \in Widgets |-> "none"]
    /\ last = [op |-> "init", fwn |-> << >>, newfocus |-> NoFocus,
               ev |-> NoEvent, mul |-> << >>, raised |-> FALSE,
               focused |-> None, grab |-> None, name |-> NoName,
               enum |-> {}]
    /\ pass = NoPass
    /\ calc = NoCalc

\* Reconciliation: passes of before_interact, with change_focus and set_grab
\* calls between them.
InitRecon ==
    Init /\ penalty = 1 /\ \A w \in Widgets \ TreeWidgets : ~default[w]

NextRecon ==
    \/ \E fwn \in Enums : BeforeInteract(fwn)
    \/ \E newfocus \in CallFocuses : ChangeFocus(newfocus)
    \/ \E w \in GrabInputs : SetGrab(w)

SpecRecon == InitRecon /\ [][NextRecon]_vars

\* Reconciliation over a widget tree that holds each widget object once: no
\* pass enumerates a widget twice.
NextOnce ==
    \/ \E fwn \in OnceEnums : BeforeInteract(fwn)
    \/ \E newfocus \in CallFocuses : ChangeFocus(newfocus)

InitOnce == Init /\ penalty = 1 /\ ~default["w2"] /\ ~default["w3"]

SpecOnce == InitOnce /\ [][NextOnce]_vars

\* A frame under way: the widgets were named by passes enumerating
\* (w1, a), (w2, a) and then (w3, b), the rendering system has handed over a
\* focus list, and earlier events have left the focus anywhere.
InitNav ==
    /\ focused \in Widgets \cup {None}
    /\ grab = None
    /\ focus_list \in FocusLists
    /\ full_focus_name = [w \in Widgets |->
                             CASE w = "w1" -> <<"a", 0>>
                               [] w = "w2" -> <<"a", 1>>
                               [] OTHER -> <<"b", 0>>]
    /\ default = [w \in Widgets |-> FALSE]
    /\ penalty \in Penalties
    /\ notes = << >>
    /\ last_note = [w \in Widgets |-> IF w = focused THEN "focus" ELSE "unfocus"]
    /\ last = [op |-> "init", fwn |-> << >>, newfocus |-> NoFocus,
               ev |-> NoEvent, mul |-> << >>, raised |-> FALSE,
               focused |-> None, grab |-> None, name |-> NoName,
               enum |-> {}]
    /\ pass = NoPass
    /\ calc = NoCalc

NextPointer == \E ev \in PointerEvents : EventHandler(ev)

InitPointer == InitNav /\ penalty = 1

SpecPointer == InitPointer /\ [][NextPointer]_vars

NextKeys == \E ev \in KeyEvents : EventHandler(ev)

SpecKeys == InitNav /\ [][NextKeys]_vars

NextExtreme == \E mul \in Muls : FocusExtreme(mul)

InitExtreme == InitNav /\ penalty = 1

SpecExtreme == InitExtreme /\ [][NextExtreme]_vars

\* The line distances on their own: two segments are drawn, both lying or
\* both upright, and one of the two functions is called on them.
InitDist ==
    /\ focused = None
    /\ grab = None
    /\ focus_list = << >>
    /\ full_focus_name = [w \in Widgets |-> NoName]
    /\ default = [w \in Widgets |-> FALSE]
    /\ penalty \in Penalties
    /\ notes = << >>
    /\ last_note = [w \in Widgets |-> "none"]
    /\ last = [op |-> "init", fwn |-> << >>, newfocus |-> NoFocus,
               ev |-> NoEvent, mul |-> << >>, raised |-> FALSE,
               focused |-> None, grab |-> None, name |-> NoName,
               enum |-> {}]
    /\ pass = NoPass
    /\ \E S \in {Segs, VSegs} :
          \E a \in S, b \in S : calc = [NoCalc EXCEPT !.a = a, !.b = b]

NextDist == HorizLineDist \/ VertiLineDist

SpecDist == InitDist /\ [][NextDist]_vars

\* The whole module: passes, focus lists, grabs, events and direct calls.
Next ==
    \/ \E fwn \in Enums : BeforeInteract(fwn)
    \/ \E fl \in FrameLists : TakeFocuses(fl)
    \/ \E w \in GrabInputs : SetGrab(w)
    \/ \E ev \in FrameEvents : EventHandler(ev)
    \/ \E newfocus \in CallFocuses : ChangeFocus(newfocus)

InitWhole == InitRecon /\ default["w1"] /\ ~default["w2"]

Spec == InitWhole /\ [][Next]_vars

\* Rectangles that overlap in part, hold one another, have no width or no
\* height, and one of negative width.
EdgeRects == {<<0, 0, 10, 10>>, <<5, 20, 10, 10>>, <<20, 5, 10, 10>>,
              <<2, 20, 4, 4>>, <<0, 20, 0, 0>>, <<-20, -5, 0, 10>>,
              <<0, 20, -10, 10>>}

EdgeLists ==
    UNION {{[i \in 1..n |-> Focus(WidgetAt(i), rs[i])] :
               rs \in [1..n -> EdgeRects]} : n \in 0..MaxRegions}

\* Key events over focus lists of such rectangles.
InitEdge ==
    /\ focused \in Widgets \cup {None}
    /\ grab = None
    /\ focus_list \in EdgeLists
    /\ full_focus_name = [w \in Widgets |->
                             CASE w = "w1" -> <<"a", 0>>
                               [] w = "w2" -> <<"a", 1>>
                               [] OTHER -> <<"b", 0>>]
    /\ default = [w \in Widgets |-> FALSE]
    /\ penalty = 1
    /\ notes = << >>
    /\ last_note = [w \in Widgets |-> IF w = focused THEN "focus" ELSE "unfocus"]
    /\ last = [op |-> "init", fwn |-> << >>, newfocus |-> NoFocus,
               ev |-> NoEvent, mul |-> << >>, raised |-> FALSE,
               focused |-> None, grab |-> None, name |-> NoName,
               enum |-> {}]
    /\ pass = NoPass
    /\ calc = NoCalc

NextEdge == \E ev \in KeyEvents : EventHandler(ev)

SpecEdge == InitEdge /\ [][NextEdge]_vars

\* The enumerations of Enums that hold no widget twice.
FrameEnums ==
    {fwn \in Enums : \A i, j \in 1..Len(fwn) : fwn[i][1] = fwn[j][1] => i = j}

\* The widgets of the most recent enumeration.
LastEnumerated == last.enum

\* An event that arrives while focus_list holds only widgets of the most
\* recent enumeration.
FrameEvent(ev) ==
    /\ \A i \in 1..Len(focus_list) : focus_list[i].widget \in LastEnumerated
    /\ EventHandler(ev)

\* Frames: passes that enumerate each widget at most once, focus lists from
\* the rendering system, grabs, and pointer and key events.
NextFrames ==
    \/ \E fwn \in FrameEnums : BeforeInteract(fwn)
    \/ \E fl \in FrameLists : TakeFocuses(fl)
    \/ \E w \in GrabInputs : SetGrab(w)
    \/ \E ev \in FrameEvents : FrameEvent(ev)

SpecFrames == InitRecon /\ [][NextFrames]_vars

\* A frame under way with a grab set and released between the events.
NextNav ==
    \/ \E ev \in KeyEvents : EventHandler(ev)
    \/ \E ev \in PointerEvents : EventHandler(ev)
    \/ \E w \in GrabInputs : SetGrab(w)

SpecNav == InitPointer /\ [][NextNav]_vars

\* Reconciliation and change_focus with widgets whose focus or unfocus method
\* may raise.
NextAbort ==
    \/ \E fwn \in Enums : BeforeInteract(fwn)
    \/ \E newfocus \in CallFocuses : ChangeFocus(newfocus)
    \/ \E fwn \in Enums, k \in 1..MaxEnum : BeforeInteractAborted(fwn, k)
    \/ \E newfocus \in CallFocuses, k \in 1..2 : ChangeFocusAborted(newfocus, k)

SpecAbort == InitRecon /\ [][NextAbort]_vars

\* ------------------------------------------------------------------ claims

\* The last operation was a before_interact pass.
AfterPass == last.op = "before_interact"

\* The positions of the pass's enumeration that carry logical name n.
Carrying(n) == {i \in 1..Len(last.fwn) : last.fwn[i][2] = n}

\* The widgets the pass enumerated.
Enumerated == {last.fwn[i][1] : i \in 1..Len(last.fwn)}

\* No widget object occurs twice in the enumeration.
NoDup(fwn) == \A i, j \in 1..Len(fwn) : fwn[i][1] = fwn[j][1] => i = j

\* The NameKey of the focus now, and of the focus the operation started
\* from; NoName stands for no focus.
KeyNow == IF focused = None THEN NoName ELSE full_focus_name[focused]

KeyBefore == IF last.focused = None THEN NoName ELSE last.name

\* C1 as stated, in its case of a fresh widget (the focused object itself is
\* not enumerated by the pass): after a pass that started with a focused
\* widget whose logical name occurs exactly once in the enumeration, the
\* focus is the enumerated widget carrying that name, whatever serial index
\* the focused widget held.
C1_Original ==
    (/\ AfterPass /\ last.focused # None /\ last.focused \notin Enumerated
     /\ Cardinality(Carrying(last.name[1])) = 1)
    => \A i \in Carrying(last.name[1]) : focused = last.fwn[i][1]

\* C1, amended: the same, provided the carrying widget is the previously
\* focused object itself, or the previously focused object is not enumerated,
\* held serial index 0, and the carrying widget is not enumerated again later
\* in the pass.
C1_Amended ==
    (AfterPass /\ last.focused # None /\ Cardinality(Carrying(last.name[1])) = 1)
    => \A i \in Carrying(last.name[1]) :
          (\/ last.fwn[i][1] = last.focused
           \/ /\ last.focused \notin Enumerated
              /\ last.name[2] = 0
              /\ \A j \in 1..Len(last.fwn) :
                    last.fwn[j][1] = last.fwn[i][1] => j <= i)
          => focused = last.fwn[i][1]

\* A fresh widget, second in the enumeration, took over the focus of a widget
\* that is not enumerated any more.
C1_Witness ==
    /\ AfterPass /\ last.focused # None
    /\ Len(last.fwn) = 2
    /\ Carrying(last.name[1]) = {2}
    /\ last.focused \notin Enumerated
    /\ focused = last.fwn[2][1]

\* C4 as stated: a pass that repeats the names and default flags of the pass
\* right before it resolves the same focus: none after both, or a widget with
\* the same NameKey after both.
C4_Original == (AfterPass /\ pass.repeat) => KeyNow = KeyBefore

\* C4, amended: the same, provided neither pass enumerates a widget object
\* twice and the widget focused after the first pass is absent from the
\* second enumeration or at the same position in it.
C4_Amended ==
    (/\ AfterPass /\ pass.repeat
     /\ NoDup(pass.prev) /\ NoDup(last.fwn)
     /\ \A i \in 1..Len(last.fwn) :
           last.fwn[i][1] = last.focused => pass.prev[i][1] = last.focused)
    => KeyNow = KeyBefore

\* Two passes in a row over the same two names, the second with the two
\* widgets in the same places, the focus on the second of them.
C4_Witness ==
    /\ AfterPass /\ pass.repeat
    /\ Len(last.fwn) = 2 /\ NoDup(last.fwn) /\ pass.prev = last.fwn
    /\ focused = last.fwn[2][1]
    /\ KeyNow = KeyBefore

\* The widgets of the enumeration that are flagged default.
EnumeratedDefaults == {f \in Enumerated : default[f]}

\* C5: after a pass that started with a focused widget whose NameKey no
\* enumerated widget has, and that enumerated exactly one widget flagged
\* default, the focus is that default widget.
C5_DefaultFallback ==
    (/\ AfterPass /\ last.focused # None
     /\ \A f \in Enumerated : full_focus_name[f] # full_focus_name[last.focused]
     /\ Cardinality(EnumeratedDefaults) = 1)
    => focused \in EnumeratedDefaults

\* The focus fell from a widget that is gone to the one default widget.
C5_Witness ==
    /\ AfterPass /\ last.focused # None
    /\ \A f \in Enumerated : full_focus_name[f] # full_focus_name[last.focused]
    /\ Cardinality(EnumeratedDefaults) = 1
    /\ focused \in EnumeratedDefaults
    /\ focused # last.focused

\* C6: after a pass that started with nothing focused and enumerated no
\* widget flagged default, nothing is focused and no focus call was made.
C6_NoFocusNoDefault ==
    (AfterPass /\ last.focused = None /\ EnumeratedDefaults = {})
    => /\ focused = None
       /\ \A i \in 1..Len(notes) : notes[i].kind # "focus"

\* A pass over two widgets, none default, from no focus.
C6_Witness ==
    /\ AfterPass /\ last.focused = None /\ EnumeratedDefaults = {}
    /\ Cardinality(Enumerated) = 2
    /\ focused = None

\* C10: at the end of a pass every enumerated widget other than the resolved
\* focus has been sent unfocus; the resolved focus has been sent exactly one
\* focus, with default=True, and no unfocus; with no focus resolved no focus
\* call is made at all.
C10_PassNotifications ==
    AfterPass =>
       /\ \A f \in Enumerated \ {focused} : CountNotes(notes, f, "unfocus") >= 1
       /\ focused # None =>
             /\ CountNotes(notes, focused, "focus") = 1
             /\ CountNotes(notes, focused, "unfocus") = 0
             /\ \A i \in 1..Len(notes) :
                   notes[i].kind = "focus"
                   => notes[i].widget = focused /\ notes[i].default
       /\ focused = None => \A i \in 1..Len(notes) : notes[i].kind # "focus"

\* A pass over two widgets that resolved the focus to one of them.
C10_Witness ==
    /\ AfterPass /\ Cardinality(Enumerated) = 2
    /\ focused \in Enumerated
    /\ Len(notes) = 2

\* The focuses of focus_list that have a rectangle.
Placed == {i \in 1..Len(focus_list) : ~XIsNone(focus_list[i])}

\* The smallest member of a non-empty set of indexes.
First(S) == CHOOSE i \in S : \A j \in S : i <= j

\* C2 as stated: focus_extreme, called with no grab, moves the focus to the
\* widget of the first focus that maximises x*xmul + y*ymul + w*wmul + h*hmul
\* over all focuses whose x is not None (x = 0 included), and leaves the
\* focus alone when no focus has an x.
C2_Claim ==
    (last.op = "focus_extreme" /\ last.grab = None)
    => IF Placed = {} THEN focused = last.focused
       ELSE LET best == {i \in Placed :
                           \A j \in Placed : Score(focus_list[j], last.mul)
                                             <= Score(focus_list[i], last.mul)}
            IN  focused = focus_list[First(best)].widget

\* The focus an event would move to by the pointer test of mouse_handler.
\* Written out here, apart from the model's loop: the first focus whose
\* rectangle holds the point; else some placeless focus; else None.
PointerTargets(px, py) ==
    LET hits == {i \in Placed :
                    /\ focus_list[i].rect[1] <= px
                    /\ px <= focus_list[i].rect[1] + focus_list[i].rect[3]
                    /\ focus_list[i].rect[2] <= py
                    /\ py <= focus_list[i].rect[2] + focus_list[i].rect[4]}
        placeless == (1..Len(focus_list)) \ Placed
    IN  IF hits # {} THEN {focus_list[First(hits)].widget}
        ELSE IF placeless # {} THEN {focus_list[i].widget : i \in placeless}
        ELSE {None}

\* C3: while a grab is set, change_focus and every event leave the focus
\* alone and make no call; a pass ends with the grab cleared; and with no
\* grab change_focus moves the focus to a Focus whose widget is not focused.
C3_GrabSuppresses ==
    /\ (last.op \in {"change_focus", "event_handler"} /\ last.grab # None)
       => (focused = last.focused /\ notes = << >>)
    /\ AfterPass => grab = None
    /\ (/\ last.op = "change_focus" /\ last.grab = None
        /\ last.newfocus # NoFocus /\ last.newfocus.widget # last.focused)
       => focused = last.newfocus.widget

\* A pointer event over the rectangle of a widget that is not focused, under
\* a grab: the focus stayed.
C3_Witness ==
    /\ last.op = "event_handler" /\ last.ev.type \in MouseTypes
    /\ last.grab # None
    /\ last.focused \notin PointerTargets(last.ev.pos[1], last.ev.pos[2])
    /\ focused = last.focused

\* C7: a pointer event with no grab leaves the focus on the widget of the
\* first focus whose rectangle holds the point; if none does, on the widget
\* of a placeless focus; and with neither the focus is None and the old
\* focus, if any, was sent unfocus.
C7_PointerFocus ==
    (last.op = "event_handler" /\ last.ev.type \in MouseTypes /\ last.grab = None)
    => /\ focused \in PointerTargets(last.ev.pos[1], last.ev.pos[2])
       /\ (focused = None /\ last.focused # None)
          => notes = <<Note(last.focused, "unfocus", FALSE)>>

\* The pointer on the corner shared by the rectangles of the second and third
\* focuses, the third focused: the focus went to the second.
C7_Witness ==
    /\ last.op = "event_handler" /\ last.ev.type \in MouseTypes
    /\ last.grab = None
    /\ last.ev.pos = <<10, 10>>
    /\ Len(focus_list) = 3
    /\ focus_list[1].rect = <<20, 0, 10, 10>>
    /\ focus_list[2].rect = <<0, 0, 10, 10>>
    /\ focus_list[3].rect = <<0, 0, 10, 10>>
    /\ last.focused = focus_list[3].widget
    /\ focused = focus_list[2].widget

\* The x-intervals of two segments <<x0, y0, x1, y1>> overlap or touch.
XOverlap(a, b) == a[1] <= b[3] /\ b[1] <= a[3]

\* C8: horiz_line_dist gives the same distance with its two segments
\* swapped; when their x-intervals overlap or touch it is the squared
\* difference of the y-coordinates, whatever the penalty; and it is 25 for
\* (0,0)-(10,0) and (5,5)-(15,5).
C8_HorizSymmetric ==
    calc.fn = "horiz_line_dist"
    => /\ calc.d = LineDist("horiz_line_dist", calc.b, calc.a)
       /\ XOverlap(calc.a, calc.b) => calc.d = Sq(calc.a[2] - calc.b[2])
       /\ (calc.a = <<0, 0, 10, 0>> /\ calc.b = <<5, 5, 15, 5>>) => calc.d = 25

\* The second segment wholly left of the first, at another height, the
\* penalty above 1.
C8_Witness ==
    /\ calc.fn = "horiz_line_dist"
    /\ calc.b[3] < calc.a[1]
    /\ calc.a[2] # calc.b[2]
    /\ penalty > 1
    /\ calc.d = Sq((calc.a[1] - calc.b[3]) * penalty) + Sq(calc.a[2] - calc.b[2])

\* The one mapped action of a key event that matches exactly one.
TheKey == CHOOSE d \in last.ev.keys : TRUE

\* The focuses other than from that have a rectangle and satisfy the
\* condition of direction dir.
Admissible(from, dir) ==
    {i \in Placed \ {from} : Condition(dir, focus_list[from], focus_list[i])}

\* The distance focus_nearest measures from focus from to focus i.
NavDist(from, i, dir) ==
    LineDist(Binding(dir).line_dist,
             Anchor(focus_list[from], Binding(dir).from),
             Anchor(focus_list[i], Binding(dir).to))

\* The positions in focus_list of the focuses with the given rectangle.
At(rect) == {i \in 1..Len(focus_list) : focus_list[i].rect = rect}

\* C9: a key event matching one direction, with no grab, from a focus whose
\* own region has a rectangle and with some admissible focus, leaves the
\* focus on the widget of the first of the nearest admissible focuses; and
\* rightward from (0,0,10,10) with (20,0,10,10) and (-20,0,10,10) it is the
\* widget of (20,0,10,10).
C9_NearestWins ==
    (/\ last.op = "event_handler" /\ last.ev.type = "KEYDOWN"
     /\ Cardinality(last.ev.keys) = 1
     /\ last.grab = None /\ last.focused # None
     /\ FindCurrent(1, last.focused) # 0)
    => LET from == FindCurrent(1, last.focused)
           adm == Admissible(from, TheKey)
           nearest == {i \in adm : \A j \in adm :
                          NavDist(from, i, TheKey) <= NavDist(from, j, TheKey)}
       IN  /\ (from \in Placed /\ adm # {})
              => focused = focus_list[First(nearest)].widget
           /\ (/\ TheKey = "focus_right"
               /\ Len(focus_list) = 3
               /\ from \in At(<<0, 0, 10, 10>>)
               /\ At(<<20, 0, 10, 10>>) # {}
               /\ At(<<-20, 0, 10, 10>>) # {})
              => \A i \in At(<<20, 0, 10, 10>>) : focused = focus_list[i].widget

\* Rightward from (0,0,10,10), listed last, with (-20,0,10,10) and
\* (20,0,10,10) before it: the focus went to the widget of (20,0,10,10).
C9_Witness ==
    /\ last.op = "event_handler" /\ last.ev.keys = {"focus_right"}
    /\ last.grab = None
    /\ Len(focus_list) = 3
    /\ focus_list[1].rect = <<-20, 0, 10, 10>>
    /\ focus_list[2].rect = <<20, 0, 10, 10>>
    /\ focus_list[3].rect = <<0, 0, 10, 10>>
    /\ last.focused = focus_list[3].widget
    /\ focused = focus_list[2].widget

\* The last operation was a key event matching exactly one focus action,
\* handled from a focused widget whose region is in focus_list and has a
\* rectangle.
OneKeyFromRect ==
    /\ last.op = "event_handler" /\ last.ev.type = "KEYDOWN"
    /\ Cardinality(last.ev.keys) = 1
    /\ last.focused # None
    /\ FindCurrent(1, last.focused) \in Placed

\* The direction's constraint between rectangles <<x, y, w, h>>, as the
\* claim words it.
Constraint(dir, old, new) ==
    CASE dir = "focus_right" -> old[1] + old[3] <= new[1]
      [] dir = "focus_left" -> new[1] + new[3] <= old[1]
      [] dir = "focus_up" -> new[2] + new[4] <= old[2]
      [] dir = "focus_down" -> old[2] + old[4] <= new[2]

\* C11: after a single directional key event handled from a focus whose
\* region has a rectangle, the focus is unchanged, or the widget of a
\* placeless region, or the widget of a region that satisfies the direction's
\* constraint relative to the old region.
C11_DirectionRespected ==
    OneKeyFromRect
    => \/ focused = last.focused
       \/ \E i \in 1..Len(focus_list) :
             /\ focus_list[i].widget = focused
             /\ \/ focus_list[i].rect = Placeless
                \/ Constraint(TheKey,
                              focus_list[FindCurrent(1, last.focused)].rect,
                              focus_list[i].rect)

\* The focus moved to a region that satisfies the constraint although a
\* region that fails it comes earlier in the list.
C11_Witness ==
    /\ OneKeyFromRect /\ last.grab = None
    /\ focused # last.focused
    /\ \E i \in Placed, j \in Placed :
          /\ j < i /\ j # FindCurrent(1, last.focused)
          /\ focus_list[i].widget = focused
          /\ ~Constraint(TheKey, focus_list[FindCurrent(1, last.focused)].rect,
                         focus_list[j].rect)

\* The last operation was a key event matching exactly one focus action,
\* with no grab: focus_nearest ran once.
OneKeyNoGrab ==
    /\ last.op = "event_handler" /\ last.ev.type = "KEYDOWN"
    /\ Cardinality(last.ev.keys) = 1
    /\ last.grab = None

\* The focused widget the event started from matches no focus of the list.
Stale ==
    /\ last.focused # None
    /\ \A i \in 1..Len(focus_list) : focus_list[i].widget # last.focused

\* C12: with no grab, focus_nearest changes nothing when focus_list is empty;
\* with a non-empty list it leaves the focus on the widget of the first focus
\* of the list when nothing was focused and when the focused widget matched
\* no focus of the list, and it does not fail in either case.
C12_FirstRegionFallback ==
    OneKeyNoGrab
    => /\ focus_list = << >> => (focused = last.focused /\ notes = << >>)
       /\ (focus_list # << >> /\ (last.focused = None \/ Stale))
          => (focused = focus_list[1].widget /\ ~last.raised)

\* A key event from a focused widget that is not in a non-empty list moved
\* the focus to the widget of the first focus.
C12_Witness ==
    /\ OneKeyNoGrab /\ Stale
    /\ focus_list # << >>
    /\ focused = focus_list[1].widget
    /\ notes = <<Note(last.focused, "unfocus", FALSE),
                 Note(focus_list[1].widget, "focus", FALSE)>>

\* The widgets of the placeless focuses of the list.
PlacelessWidgets ==
    {focus_list[i].widget : i \in (1..Len(focus_list)) \ Placed}

\* C13: focus_nearest, run once with no grab from a focus whose region has a
\* rectangle: if some other focus with a rectangle is admissible the focus
\* chosen is an admissible one, not a placeless one; if none is admissible and
\* the list has a placeless focus the new focus is the widget of one; and
\* with neither the focus is unchanged and no call was made.
C13_PlacelessLastResort ==
    (OneKeyNoGrab /\ OneKeyFromRect)
    => LET adm == Admissible(FindCurrent(1, last.focused), TheKey)
       IN  /\ adm # {} => focused \in {focus_list[i].widget : i \in adm}
           /\ (adm = {} /\ PlacelessWidgets # {}) => focused \in PlacelessWidgets
           /\ (adm = {} /\ PlacelessWidgets = {})
              => (focused = last.focused /\ notes = << >>)

\* The list holds a placeless focus ahead of an admissible one, and the
\* focus went to the admissible one.
C13_Witness ==
    /\ OneKeyNoGrab /\ OneKeyFromRect
    /\ \E i \in Admissible(FindCurrent(1, last.focused), TheKey) :
          /\ focus_list[i].widget = focused
          /\ \E j \in 1..Len(focus_list) : j < i /\ XIsNone(focus_list[j])

\* C14: change_focus with no grab: when the target widget (or None) is the
\* focused widget (or None) no call is made and the focus stays; otherwise
\* the old focus, if any, is sent one unfocus, then the target, if any, one
\* focus with default false, and the target is the focus afterwards.
C14_ChangeFocusCalls ==
    (last.op = "change_focus" /\ last.grab = None)
    => LET target == last.newfocus.widget
           old == last.focused
       IN  IF target = old
           THEN notes = << >> /\ focused = old
           ELSE /\ focused = target
                /\ notes = (IF old = None THEN << >>
                            ELSE <<[widget |-> old, kind |-> "unfocus",
                                    default |-> FALSE]>>)
                           \o (IF target = None THEN << >>
                               ELSE <<[widget |-> target, kind |-> "focus",
                                       default |-> FALSE]>>)
                /\ last_note = [w \in Widgets |->
                                  IF w = target THEN "focus"
                                  ELSE IF w = old THEN "unfocus"
                                  ELSE last_note[w]]

\* change_focus moved the focus from one widget to another: two calls, the
\* unfocus first.
C14_Witness ==
    /\ last.op = "change_focus" /\ last.grab = None
    /\ last.focused # None /\ focused # None /\ focused # last.focused
    /\ Len(notes) = 2
    /\ notes[1].kind = "unfocus" /\ notes[2].kind = "focus"

\* C15 as stated: in before_interact and in change_focus alike the focused
\* widget is written only after every call of the operation, so an operation
\* that a call aborts leaves get_focused returning what it returned before.
C15_Claim ==
    (last.raised /\ last.op \in {"before_interact", "change_focus"})
    => focused = last.focused

\* C16: when every focus of the list with a rectangle has w >= 0 and
\* h >= 0, no key event, in any direction, reaches the assertion of
\* horiz_line_dist or verti_line_dist.
C16_AssertionUnreachable ==
    (/\ last.op = "event_handler"
     /\ \A i \in Placed : focus_list[i].rect[3] >= 0 /\ focus_list[i].rect[4] >= 0)
    => ~last.raised

\* A key event scored a rectangle of no width and no height from a rectangle
\* at another place, and moved the focus to it.
C16_Witness ==
    /\ OneKeyFromRect /\ last.grab = None
    /\ \A i \in Placed : focus_list[i].rect[3] >= 0 /\ focus_list[i].rect[4] >= 0
    /\ focused # last.focused
    /\ \E i \in Placed : /\ focus_list[i].widget = focused
                         /\ focus_list[i].rect[3] = 0
                         /\ focus_list[i].rect[4] = 0
    /\ ~last.raised

\* C17: verti_line_dist is horiz_line_dist with the axes swapped; when the
\* y-intervals of the segments overlap or touch it is the squared difference
\* of the x-coordinates, and when they are apart the penalty multiplies the
\* y difference of the facing end points and the x difference is unweighted.
C17_VertiMirrorsHoriz ==
    calc.fn = "verti_line_dist"
    => LET a == calc.a
           b == calc.b
       IN  /\ calc.d = horiz_line_dist(a[2], a[1], a[4], a[3],
                                       b[2], b[1], b[4], b[3])
           /\ (a[2] <= b[4] /\ b[2] <= a[4]) => calc.d = (a[1] - b[1]) * (a[1] - b[1])
           /\ a[4] < b[2]
              => calc.d = (a[3] - b[1]) * (a[3] - b[1])
                          + (penalty * (a[4] - b[2])) * (penalty * (a[4] - b[2]))
           /\ b[4] < a[2]
              => calc.d = (a[1] - b[3]) * (a[1] - b[3])
                          + (penalty * (a[2] - b[4])) * (penalty * (a[2] - b[4]))

\* Two upright segments, the first wholly above the second and to its side,
\* the penalty above 1.
C17_Witness ==
    /\ calc.fn = "verti_line_dist"
    /\ calc.a[2] < calc.a[4] /\ calc.b[2] < calc.b[4]
    /\ calc.a[4] < calc.b[2]
    /\ calc.a[1] # calc.b[1]
    /\ penalty > 1
    /\ calc.d > 0

\* The positions at which the pass enumerated the widget that was focused
\* when it began.
FocusedAt == {i \in 1..Len(last.fwn) : last.fwn[i][1] = last.focused}

\* C18: if the widget object focused when before_interact starts is
\* enumerated once by the pass, it is the focused widget after the pass,
\* whatever serial index it now has and whichever widget now carries the
\* NameKey it held.
C18_SameObjectKeepsFocus ==
    (AfterPass /\ last.focused # None /\ Cardinality(FocusedAt) = 1)
    => focused = last.focused

\* The focused widget is enumerated second, behind a widget of the same
\* logical name that takes over the NameKey it held; its serial index has
\* changed and it kept the focus.
C18_Witness ==
    /\ AfterPass /\ last.focused # None
    /\ FocusedAt = {2}
    /\ last.fwn[1][1] # last.focused
    /\ full_focus_name[last.fwn[1][1]] = last.name
    /\ full_focus_name[last.focused] # last.name
    /\ focused = last.focused

\* The widgets of the most recent enumeration whose most recent call was
\* focus.
ShownFocused == {w \in LastEnumerated : last_note[w] = "focus"}

\* C19: among the widgets enumerated by the most recent pass at most one has
\* focus as its most recent call, and if one has, it is the focused widget.
C19_OneShownFocused ==
    /\ Cardinality(ShownFocused) <= 1
    /\ \A w \in ShownFocused : focused = w

\* An event moved the focus from one widget of the most recent enumeration
\* to another.
C19_Witness ==
    /\ last.op = "event_handler"
    /\ last.focused \in LastEnumerated
    /\ focused \in LastEnumerated
    /\ focused # last.focused
    /\ last_note[last.focused] = "unfocus"
    /\ ShownFocused = {focused}

\* C20: a key event never clears the focus: if a widget was focused before
\* it, a widget is focused after it, whatever the focus list and the grab;
\* and when an operation leaves no widget focused where one was, it was a
\* pointer event or a before_interact pass.
C20_KeysNeverClear ==
    /\ (last.op = "event_handler" /\ last.ev.type = "KEYDOWN" /\ last.focused # None)
       => focused # None
    /\ (last.focused # None /\ focused = None)
       => \/ last.op = "before_interact"
          \/ last.op = "event_handler" /\ last.ev.type \in MouseTypes

\* A key event from a focused widget whose region is placeless, over a list
\* in which focus_extreme scores nothing: the widget is still focused.
C20_Witness ==
    /\ OneKeyNoGrab /\ last.focused # None
    /\ FindCurrent(1, last.focused) # 0
    /\ XIsNone(focus_list[FindCurrent(1, last.focused)])
    /\ \A i \in Placed : focus_list[i].rect[1] = 0
    /\ focused = last.focused

=============================================================================
